---- MODULE Spec2Model ----
(***************************************************************************)
(* TSP comparison program: a simulated-annealing engine (annealing.h), a   *)
(* genetic-algorithm engine (genetic.h) and the AlgorithmVisualization     *)
(* class of Tarefa1/main.cpp that runs one thread per engine, ticks both   *)
(* through a shared condition variable and draws their state.              *)
(*                                                                         *)
(* Distances are integers (the instances below are chosen so that hypot is *)
(* exact); temperatures are exact rationals <<num, den>>; every RNG draw   *)
(* is a nondeterministic choice over the draw's range.                     *)
(***************************************************************************)
EXTENDS Integers, Sequences, FiniteSets, TLC

VARIABLES
    problem,        \* Problem: [cities, distanceMatrix]            (main.cpp:25)
    saState,        \* AnnealingState                               (main.cpp:36)
    saFinished,     \* bool                                         (main.cpp:37)
    saPos,          \* where runAnnealing is: "idle" or "loop"
    saI,            \* runAnnealing's loop index i                  (annealing.h:48)
    population,     \* std::vector<Path>                            (main.cpp:29)
    gaBestPath,     \* Path                                         (main.cpp:31)
    generation,     \* size_t                                       (main.cpp:32)
    stallCounter,   \* size_t, the GA's                             (main.cpp:33)
    gaFinished,     \* bool                                         (main.cpp:34)
    logger,         \* Logger: the SA and the GA record streams     (main.cpp:22)
    running,        \* std::atomic<bool>                            (main.cpp:45)
    stepSignal,     \* bool, guarded by cvMutex                     (main.cpp:46)
    cvMutex,        \* owner of cvMutex, or "free"                  (main.cpp:44)
    saMutex,        \* owner of saMutex, or "free"                  (main.cpp:41)
    gaMutex,        \* owner of gaMutex, or "free"                  (main.cpp:42)
    pc,             \* position of each engine thread's lambda      (main.cpp:141-169)
    mainPc,         \* position of the main thread (Run/Update/Draw/StopThreads)
    restarts,       \* number of restarts done (KEY_R), capped by MaxRestarts
    delivered,      \* history: the tasks that consumed the latest tick
    tickCredit,     \* history: per engine, ticks issued minus steps called,
                    \* counted up to MaxCredit
    call            \* a call of one function by itself: its arguments and,
                    \* once applied, what it returns

engineVars == <<problem, saState, saFinished, saPos, saI,
                population, gaBestPath, generation, stallCounter, gaFinished,
                logger>>
saVars == <<saState, saFinished, saPos, saI>>
gaVars == <<population, gaBestPath, generation, stallCounter, gaFinished>>
syncVars == <<running, stepSignal, cvMutex, saMutex, gaMutex>>
harnessVarsButCall == <<running, stepSignal, cvMutex, saMutex, gaMutex,
                        pc, mainPc, restarts, delivered, tickCredit>>
harnessVars == <<running, stepSignal, cvMutex, saMutex, gaMutex,
                 pc, mainPc, restarts, delivered, tickCredit, call>>
vars == <<problem, saState, saFinished, saPos, saI,
          population, gaBestPath, generation, stallCounter, gaFinished, logger,
          running, stepSignal, cvMutex, saMutex, gaMutex,
          pc, mainPc, restarts, delivered, tickCredit, call>>

----------------------------------------------------------------------------
(* Bounds of the model. *)

\* neighborsPerTemp (annealing.h:11 gives 10), scaled down
NeighborsPerTemp == 2
\* AnnealingParams::stallLimit (annealing.h:12 gives 500), scaled down
SAStallLimit == 3
\* gaParams.populationSize (main.cpp:102), scaled down
PopulationSize == 2
\* gaParams.generations (main.cpp:103), scaled down
Generations == 3
\* gaParams.stallLimit (main.cpp:107), scaled down
GAStallLimit == 2
\* std::numeric_limits<double>::infinity(), the dist of a Path not yet
\* evaluated (map.h:26): above every route length of the instances
Infinity == 1000000
\* how many times KEY_R is pressed in a run
MaxRestarts == 1

\* the largest number of cities of a function called by itself
MaxCities == 4

\* the cap of the tickCredit count
MaxCredit == 1

\* gaParams.elitism (main.cpp:104), a share of the population: here all
\* members but one, so that a generation breeds one child
Elitism == PopulationSize - 1
\* gaParams.tournamentK (main.cpp:105): std::max(2, ...)
TournamentK == 2

\* saState.params.initialTemp, finalTemp, alpha (main.cpp:121-123), scaled so
\* that the schedule T, T/(1+aT), ... is 1, 1/2, 1/3 and meets finalTemp
initialTemp == <<1, 1>>
finalTemp == <<1, 3>>
alpha == <<1, 1>>

----------------------------------------------------------------------------
(* Exact rationals <<num, den>>, den > 0, in lowest terms. *)

RECURSIVE GCD(_, _)
GCD(a, b) == IF b = 0 THEN a ELSE GCD(b, a % b)

Rat(p, q) == LET g == GCD(p, q) IN IF g = 0 THEN <<0, 1>> ELSE <<p \div g, q \div g>>
RatLess(a, b) == a[1] * b[2] < b[1] * a[2]
RatLeq(a, b) == a[1] * b[2] <= b[1] * a[2]
RatAdd(a, b) == Rat(a[1] * b[2] + b[1] * a[2], a[2] * b[2])
RatMul(a, b) == Rat(a[1] * b[1], a[2] * b[2])
RatDiv(a, b) == Rat(a[1] * b[2], a[2] * b[1])
RatOne == <<1, 1>>

----------------------------------------------------------------------------
(* map.h *)

\* Problem instances.  Rect4: the corners of a 3 x 4 rectangle (sides 3 and
\* 4, diagonals 5), whose 24 tours have the lengths 14, 16 and 18.  Pair2:
\* two cities 5 apart.
Rect4 == << [x |-> 0, y |-> 0], [x |-> 3, y |-> 0], [x |-> 3, y |-> 4], [x |-> 0, y |-> 4] >>
Pair2 == << [x |-> 0, y |-> 0], [x |-> 3, y |-> 4] >>

\* Line4: four cities on a line, their six distances 1, 2, 3, 4, 6, 7 all
\* different; Line3 its first three cities; One1 a single city
Line4 == << [x |-> 0, y |-> 0], [x |-> 1, y |-> 0], [x |-> 3, y |-> 0], [x |-> 7, y |-> 0] >>
Line3 == << [x |-> 0, y |-> 0], [x |-> 1, y |-> 0], [x |-> 3, y |-> 0] >>
One1 == << [x |-> 0, y |-> 0] >>

ISqrt(s) == CHOOSE r \in 0..s : r * r <= s /\ s < (r + 1) * (r + 1)

\* euclid: std::hypot of the coordinate differences
euclid(a, b) == ISqrt((a.x - b.x) * (a.x - b.x) + (a.y - b.y) * (a.y - b.y))

\* buildDistanceMatrix: the flat n*n vector m[i*n+j]; d is computed for i < j
\* and stored at both m[i*n+j] and m[j*n+i]
buildDistanceMatrix(cities) ==
    LET n == Len(cities)
    IN  [k \in 0..(n * n - 1) |->
            LET i == k \div n
                j == k % n
            IN  IF i = j THEN 0
                ELSE IF i < j THEN euclid(cities[i + 1], cities[j + 1])
                ELSE euclid(cities[j + 1], cities[i + 1])]

\* routeLength without the edge back from order.back() to order.front()
routeLengthOpen(order, distM) ==
    LET n == Len(order)
        RECURSIVE acc(_)
        acc(i) == IF i + 1 > n THEN 0
                  ELSE distM[order[i] * n + order[i + 1]] + acc(i + 1)
    IN  acc(1)

\* routeLength: the sum of the n-1 consecutive edges plus the edge back from
\* order.back() to order.front().  order holds city indices 0..n-1 at the
\* 1-based positions 1..n.
routeLength(order, distM) ==
    LET n == Len(order)
        RECURSIVE acc(_)
        acc(i) == IF i + 1 > n THEN 0
                  ELSE distM[order[i] * n + order[i + 1]] + acc(i + 1)
    IN  acc(1) + distM[order[n] * n + order[1]]

numCities == Len(problem.cities)

\* the positions randint(0, n-1) can draw
Positions(n) == 0..(n - 1)

\* all orders of the cities 0..n-1
Perms(n) == { o \in [1..n -> 0..(n - 1)] : \A a, b \in 1..n : a # b => o[a] # o[b] }

IsPermutation(order, n) ==
    /\ Len(order) = n
    /\ \A c \in 0..(n - 1) : Cardinality({ p \in 1..n : order[p] = c }) = 1

\* std::reverse(first + i, first + j + 1) on 0-based positions i <= j
ReverseSegment(order, i, j) ==
    [p \in 1..Len(order) |->
        IF i + 1 <= p /\ p <= j + 1 THEN order[(i + 1) + (j + 1) - p] ELSE order[p]]

\* std::swap(order[i], order[j]) on 0-based positions
SwapAt(order, i, j) ==
    [p \in 1..Len(order) |->
        IF p = i + 1 THEN order[j + 1] ELSE IF p = j + 1 THEN order[i + 1] ELSE order[p]]

----------------------------------------------------------------------------
(* annealing.h *)

\* twoOptSwap reversing the positions i..j-1
twoOptSwapExclusive(path, i, j) ==
    IF Len(path.order) < 2 THEN path
    ELSE LET lo == IF i > j THEN j ELSE i
             hi == IF i > j THEN i ELSE j
         IN  [path EXCEPT !.order = ReverseSegment(path.order, lo, hi - 1)]

\* twoOptSwap with the two draws i, j: a copy of path with the segment
\* reversed; the copy keeps path.dist
twoOptSwap(path, i, j) ==
    IF Len(path.order) < 2 THEN path
    ELSE LET lo == IF i > j THEN j ELSE i
             hi == IF i > j THEN i ELSE j
         IN  [path EXCEPT !.order = ReverseSegment(path.order, lo, hi)]

routePathLength(path, prob) == routeLength(path.order, prob.distanceMatrix)

\* the terminal test of runAnnealing (lines 43-44 and 83-84)
AnnealingTerminal(state) ==
    \/ RatLess(state.params.actualTemp, state.params.finalTemp)
    \/ state.stallCounter >= state.params.stallLimit

\* the outcomes of rng.rand01() < std::exp(-delta / actualTemp) for delta >= 0:
\* exp(0) = 1 exceeds every draw of [0, 1); for delta > 0 either
AcceptOutcomes(delta) == IF delta = 0 THEN {TRUE} ELSE BOOLEAN

\* EvaluateCandidate with the best updated on currLen <= bestDist
EvaluateCandidateLeq(state, prob, i, j, accept) ==
    LET candidate == twoOptSwap(state.currentPath, i, j)
        current_dist == routePathLength(state.currentPath, prob)
        candidate_dist == routePathLength(candidate, prob)
        current == IF candidate_dist < current_dist THEN candidate
                   ELSE IF accept THEN candidate
                   ELSE state.currentPath
        currLen == routePathLength(current, prob)
        improved == currLen <= state.bestDist
    IN  [state EXCEPT
            !.currentPath = current,
            !.bestDist = IF improved THEN currLen ELSE @,
            !.bestPath = IF improved THEN current ELSE @,
            !.stallCounter = IF improved THEN 0 ELSE @ + 1,
            !.iterations = @ + 1,
            !.currentIterations = @ + 1]

\* one pass of the loop body of runAnnealing (lines 49-76)
EvaluateCandidate(state, prob, i, j, accept) ==
    LET candidate == twoOptSwap(state.currentPath, i, j)
        current_dist == routePathLength(state.currentPath, prob)
        candidate_dist == routePathLength(candidate, prob)
        current == IF candidate_dist < current_dist THEN candidate
                   ELSE IF accept THEN candidate
                   ELSE state.currentPath
        currLen == routePathLength(current, prob)
        improved == currLen < state.bestDist
    IN  [state EXCEPT
            !.currentPath = current,
            !.bestDist = IF improved THEN currLen ELSE @,
            !.bestPath = IF improved THEN current ELSE @,
            !.stallCounter = IF improved THEN 0 ELSE @ + 1,
            !.iterations = @ + 1,
            !.currentIterations = @ + 1]

\* Cool with alpha left out of the denominator
CoolWithoutAlpha(state) ==
    [state EXCEPT !.params.actualTemp = RatDiv(@, RatAdd(RatOne, @))]

\* the cooling update (lines 80-81)
Cool(state) ==
    [state EXCEPT !.params.actualTemp =
        RatDiv(@, RatAdd(RatOne, RatMul(state.params.alpha, @)))]

\* Logger (logger.h): a new Logger holds no record; AddSAValue and AddGAValue
\* append one (counter, bestLength) record to their stream
NewLogger == [sa |-> <<>>, ga |-> <<>>]

AddSAValue(log, counter, best) == [log EXCEPT !.sa = Append(@, <<counter, best>>)]

AddGAValue(log, counter, best) == [log EXCEPT !.ga = Append(@, <<counter, best>>)]

\* StepSA's own refusal test (main.cpp:182)
StepSARefuses(state, finished) ==
    finished \/ RatLeq(state.params.actualTemp, state.params.finalTemp)

\* StepSA up to the first pass of runAnnealing's loop (main.cpp:182-188,
\* annealing.h:43-46): refused by StepSA itself, refused by runAnnealing
\* (returns false), or the loop is entered
StepSAEnter ==
    /\ saPos = "idle"
    /\ IF StepSARefuses(saState, saFinished) \/ AnnealingTerminal(saState)
       THEN /\ saFinished' = TRUE
            /\ UNCHANGED <<saState, saPos, saI>>
       ELSE /\ saPos' = "loop"
            /\ saI' = 0
            /\ UNCHANGED <<saState, saFinished>>
    /\ UNCHANGED logger

\* one candidate evaluation (annealing.h:48-77)
SAEvaluate ==
    /\ saPos = "loop"
    /\ saI < saState.params.neighborsPerTemp
    /\ \E i, j \in Positions(Len(saState.currentPath.order)) :
       \E accept \in BOOLEAN :
          LET candidate == twoOptSwap(saState.currentPath, i, j)
              delta == routePathLength(candidate, problem)
                         - routePathLength(saState.currentPath, problem)
          IN  /\ delta >= 0 => accept \in AcceptOutcomes(delta)
              /\ saState' = EvaluateCandidate(saState, problem, i, j, accept)
    /\ saI' = saI + 1
    /\ UNCHANGED <<saFinished, saPos, logger>>

\* the end of runAnnealing and of StepSA (annealing.h:80-84,
\* main.cpp:188-194): cool; when runAnnealing returns false set saFinished
\* and return, else log the round
SAFinishRound ==
    /\ saPos = "loop"
    /\ saI >= saState.params.neighborsPerTemp
    /\ saState' = Cool(saState)
    /\ saFinished' = AnnealingTerminal(saState')
    /\ logger' = IF AnnealingTerminal(saState') THEN logger
                 ELSE AddSAValue(logger, saState'.currentIterations, saState'.bestDist)
    /\ saPos' = "idle"
    /\ saI' = 0

----------------------------------------------------------------------------
(* genetic.h *)

\* the draws of initPopulation's shuffle: j = randint(0, i) for i = n-1 .. 1
ShuffleDraws(n) == { d \in [1..(n - 1) -> 0..(n - 1)] : \A i \in 1..(n - 1) : d[i] <= i }

\* the shuffle loop of initPopulation (genetic.h:21-24)
RECURSIVE ShuffleFrom(_, _, _)
ShuffleFrom(order, i, d) ==
    IF i <= 0 THEN order ELSE ShuffleFrom(SwapAt(order, i, d[i]), i - 1, d)

\* initPopulation: one member, from base = 0, 1, .., n-1
initPath(nCities, d) ==
    [order |-> ShuffleFrom([p \in 1..nCities |-> p - 1], nCities - 1, d),
     dist |-> Infinity]

\* tournamentSelect with its k draws (d[1] the first): a population index
tournamentSelect(pop, d) ==
    LET RECURSIVE pick(_, _)
        pick(best, i) ==
            IF i > Len(d) THEN best
            ELSE pick(IF pop[d[i] + 1].dist < pop[best + 1].dist THEN d[i] ELSE best, i + 1)
    IN  pick(d[1], 2)

\* orderCrossover with taken marked from p2's genes at a..b
orderCrossoverTakenFromP2(p1, p2, a0, b0) ==
    LET n == Len(p1.order)
        a == IF a0 > b0 THEN b0 ELSE a0
        b == IF a0 > b0 THEN a0 ELSE b0
        taken == { p2.order[i + 1] : i \in a..b }
        seg == [p \in 1..n |-> IF a + 1 <= p /\ p <= b + 1 THEN p1.order[p] ELSE 65535]
        RECURSIVE fill(_, _, _)
        fill(child, pos, i) ==
            IF i >= n THEN child
            ELSE LET gene == p2.order[((b + 1 + i) % n) + 1]
                 IN  IF gene \notin taken
                     THEN fill([child EXCEPT ![pos + 1] = gene], (pos + 1) % n, i + 1)
                     ELSE fill(child, pos, i + 1)
    IN  fill(seg, (b + 1) % n, 0)

\* orderCrossover with parent 2 scanned from its first position
orderCrossoverScanFromStart(p1, p2, a0, b0) ==
    LET n == Len(p1.order)
        a == IF a0 > b0 THEN b0 ELSE a0
        b == IF a0 > b0 THEN a0 ELSE b0
        taken == { p1.order[i + 1] : i \in a..b }
        seg == [p \in 1..n |-> IF a + 1 <= p /\ p <= b + 1 THEN p1.order[p] ELSE 65535]
        RECURSIVE fill(_, _, _)
        fill(child, pos, i) ==
            IF i >= n THEN child
            ELSE LET gene == p2.order[(i % n) + 1]
                 IN  IF gene \notin taken
                     THEN fill([child EXCEPT ![pos + 1] = gene], (pos + 1) % n, i + 1)
                     ELSE fill(child, pos, i + 1)
    IN  fill(seg, (b + 1) % n, 0)

\* orderCrossover with the draws a, b: the child's order
orderCrossover(p1, p2, a0, b0) ==
    LET n == Len(p1.order)
        a == IF a0 > b0 THEN b0 ELSE a0
        b == IF a0 > b0 THEN a0 ELSE b0
        taken == { p1.order[i + 1] : i \in a..b }
        seg == [p \in 1..n |-> IF a + 1 <= p /\ p <= b + 1 THEN p1.order[p] ELSE 65535]
        RECURSIVE fill(_, _, _)
        fill(child, pos, i) ==
            IF i >= n THEN child
            ELSE LET gene == p2.order[((b + 1 + i) % n) + 1]
                 IN  IF gene \notin taken
                     THEN fill([child EXCEPT ![pos + 1] = gene], (pos + 1) % n, i + 1)
                     ELSE fill(child, pos, i + 1)
    IN  fill(seg, (b + 1) % n, 0)

\* the draws of mutateSwap: per position, -1 (rand01() >= mutationRate) or
\* the j drawn by randint(0, n-1)
MutationDraws(n) == [0..(n - 1) -> (-1)..(n - 1)]

\* mutateSwap with its draws m
mutateSwap(order, m) ==
    LET RECURSIVE go(_, _)
        go(o, i) ==
            IF i >= Len(order) THEN o
            ELSE go(IF m[i] >= 0 THEN SwapAt(o, i, m[i]) ELSE o, i + 1)
    IN  go(order, 0)

\* evaluate: every member's dist recomputed
evaluate(pop, distM) ==
    [k \in 1..Len(pop) |-> [pop[k] EXCEPT !.dist = routeLength(pop[k].order, distM)]]

\* SortOutcomes for the comparator a.dist > b.dist
SortOutcomesDescending(pop) ==
    { [k \in 1..Len(pop) |-> pop[f[k]]] :
        f \in { g \in [1..Len(pop) -> 1..Len(pop)] :
                  /\ \A x, y \in 1..Len(pop) : x # y => g[x] # g[y]
                  /\ \A x \in 1..(Len(pop) - 1) : pop[g[x]].dist >= pop[g[x + 1]].dist } }

\* the results std::sort may leave for the comparator a.dist < b.dist:
\* every arrangement of pop ascending by dist
SortOutcomes(pop) ==
    { [k \in 1..Len(pop) |-> pop[f[k]]] :
        f \in { g \in [1..Len(pop) -> 1..Len(pop)] :
                  /\ \A x, y \in 1..Len(pop) : x # y => g[x] # g[y]
                  /\ \A x \in 1..(Len(pop) - 1) : pop[g[x]].dist <= pop[g[x + 1]].dist } }

\* gaParams as InitializeAlgorithms sets them (main.cpp:102-107)
gaParams == [populationSize |-> PopulationSize, generations |-> Generations,
             elitism |-> Elitism, tournamentK |-> TournamentK,
             stallLimit |-> GAStallLimit]

\* the indices the two tournamentSelect calls of one child can return
Selected(pop) ==
    { tournamentSelect(pop, d) : d \in [1..gaParams.tournamentK -> 0..(Len(pop) - 1)] }

\* the orders orderCrossover can leave in nextPop[i]
Crossed(pop) ==
    { orderCrossover(pop[s1 + 1], pop[s2 + 1], a, b) :
        s1 \in Selected(pop), s2 \in Selected(pop),
        a \in Positions(Len(pop[1].order)), b \in Positions(Len(pop[1].order)) }

\* the orders mutateSwap can leave from order
MutationOutcomes(order) == { mutateSwap(order, m) : m \in MutationDraws(Len(order)) }

\* MutationOutcomes tabulated once for the tours of the instances
MutationTable ==
    [o \in Perms(Len(Pair2)) \cup Perms(Len(Rect4)) |-> MutationOutcomes(o)] @@ <<>>

Mutated(order) ==
    IF order \in DOMAIN MutationTable THEN MutationTable[order]
    ELSE MutationOutcomes(order)

\* the orders one child of a generation can have (main.cpp:212-215)
Children(pop) == UNION { Mutated(c) : c \in Crossed(pop) }

\* ImprovesBest with <= for <
ImprovesBestLeq(popDist, bestDist) == popDist <= bestDist

\* population[0].dist + 1e-9 < gaBestPath.dist, on integer lengths
ImprovesBest(popDist, bestDist) == popDist < bestDist

\* StepGARefuses with > for >=
StepGARefusesOffByOne ==
    \/ gaFinished
    \/ generation > gaParams.generations
    \/ stallCounter > gaParams.stallLimit

\* StepGARefuses with the flag as the only test
StepGARefusesFlagOnly ==
    gaFinished

\* StepGA's refusal test (main.cpp:199)
StepGARefuses ==
    \/ gaFinished
    \/ generation >= gaParams.generations
    \/ stallCounter >= gaParams.stallLimit

\* NextPop with the elite slots filled from the end of the population
NextPopFromEnd(pop, kids) ==
    [k \in 1..Len(pop) |->
        IF k <= gaParams.elitism THEN pop[Len(pop) + 1 - k]
        ELSE [order |-> kids[k], dist |-> Infinity]]

\* nextPop before evaluate: the elite copied, the other slots children
\* (main.cpp:205-216)
NextPop(pop, kids) ==
    [k \in 1..Len(pop) |->
        IF k <= gaParams.elitism THEN pop[k]
        ELSE [order |-> kids[k], dist |-> Infinity]]

\* StepGA (main.cpp:197-235)
StepGA ==
    IF StepGARefuses
    THEN /\ gaFinished' = TRUE
         /\ UNCHANGED <<population, gaBestPath, generation, stallCounter, logger>>
    ELSE /\ \E kids \in [(gaParams.elitism + 1)..Len(population) -> Children(population)] :
              population' \in SortOutcomes(evaluate(NextPop(population, kids),
                                                   problem.distanceMatrix))
         /\ IF ImprovesBest(population'[1].dist, gaBestPath.dist)
            THEN /\ gaBestPath' = population'[1]
                 /\ stallCounter' = 0
            ELSE /\ stallCounter' = stallCounter + 1
                 /\ UNCHANGED gaBestPath
         /\ generation' = generation + 1
         /\ logger' = AddGAValue(logger, generation', gaBestPath'.dist)
         /\ UNCHANGED gaFinished

----------------------------------------------------------------------------
(* main.cpp: InitializeAlgorithms *)

\* AnnealingState as default-constructed (annealing.h:6-24)
DefaultAnnealingState ==
    [bestPath |-> [order |-> <<>>, dist |-> Infinity],
     currentPath |-> [order |-> <<>>, dist |-> Infinity],
     params |-> [initialTemp |-> initialTemp, finalTemp |-> finalTemp,
                 alpha |-> <<0, 1>>, actualTemp |-> initialTemp,
                 neighborsPerTemp |-> NeighborsPerTemp, stallLimit |-> SAStallLimit],
     bestDist |-> Infinity,
     iterations |-> 0,
     currentIterations |-> 0,
     stallCounter |-> 0]

\* lines 120-132: what InitializeAlgorithms assigns in saState, the shuffle
\* having left order
InitializedSA(state, order, distM) ==
    LET path == [order |-> order, dist |-> routeLength(order, distM)]
    IN  [state EXCEPT
            !.params.initialTemp = initialTemp,
            !.params.finalTemp = finalTemp,
            !.params.alpha = alpha,
            !.params.actualTemp = initialTemp,
            !.iterations = 5,
            !.currentPath = path,
            !.bestPath = path,
            !.bestDist = path.dist]

\* lines 109-113: the populations initPopulation, evaluate and std::sort can
\* leave, the shuffles drawing from draws
InitializedPopulations(n, distM, draws) ==
    UNION { SortOutcomes(evaluate(pop, distM)) :
              pop \in [1..gaParams.populationSize -> { initPath(n, d) : d \in draws }] }

\* the shuffle draws that leave base as it is (every j = i)
IdentityDraws(n) == { [i \in 1..(n - 1) |-> i] }

InitProblem(cities) == [cities |-> cities, distanceMatrix |-> buildDistanceMatrix(cities)]

\* the engines after InitializeAlgorithms on a default-constructed object
InitEngines(cities, saOrders, gaDraws) ==
    /\ problem = InitProblem(cities)
    /\ \E o \in saOrders :
          saState = InitializedSA(DefaultAnnealingState, o, problem.distanceMatrix)
    /\ saFinished = FALSE
    /\ saPos = "idle"
    /\ saI = 0
    /\ population \in InitializedPopulations(Len(cities), problem.distanceMatrix, gaDraws)
    /\ gaBestPath = population[1]
    /\ generation = 0
    /\ stallCounter = 0
    /\ gaFinished = FALSE

\* no function is called by itself
NoCall == [op |-> "none"]

\* the threads after the constructor's StartThreads, the main thread at the
\* top of Run's loop
InitHarness ==
    /\ running = TRUE
    /\ stepSignal = FALSE
    /\ cvMutex = "free"
    /\ saMutex = "free"
    /\ gaMutex = "free"
    /\ pc = [t \in {"sa", "ga"} |-> "top"]
    /\ mainPc = <<"run", "tick">>
    /\ restarts = 0
    /\ delivered = {}
    /\ tickCredit = [t \in {"sa", "ga"} |-> 0]
    /\ logger = NewLogger
    /\ call = NoCall

----------------------------------------------------------------------------
(* main.cpp: the two engine threads (StartThreads, lines 141-169).         *)
(* pc[t]: "top" while (running); "lock" the unique_lock on cvMutex;        *)
(* "pred" cv.wait's predicate, the lock held; "park" about to block, the   *)
(* predicate found false; "blocked" in cv.wait, the lock released; "woken" *)
(* notified, the lock to be taken again; "chk" if (!running) break and     *)
(* stepSignal = false; "englock" the lock_guard on the engine's mutex;     *)
(* "step" the guarded call of the step; "instep" inside runAnnealing's     *)
(* loop; "rel" the end of the iteration, both locks released; "done".      *)

Threads == {"sa", "ga"}

\* the tickCredit count after a tick and after a call of the step; a count
\* below zero stays there
Earned(c) == IF c < 0 \/ c >= MaxCredit THEN c ELSE c + 1

Spent(c) == IF c < 0 THEN c ELSE c - 1

EngineMutexOf(t) == IF t = "sa" THEN saMutex ELSE gaMutex

\* while (running)
ThreadTop(t) ==
    /\ pc[t] = "top"
    /\ pc' = [pc EXCEPT ![t] = IF running THEN "lock" ELSE "done"]
    /\ UNCHANGED <<engineVars, syncVars, mainPc, restarts, delivered, tickCredit, call>>

\* a mutex that excludes nobody
CanLockAlways(mutex, who) == TRUE

\* a mutex can be taken by who when it is free
CanLock(mutex, who) == mutex = "free"

\* std::unique_lock<std::mutex> lk(cvMutex)
ThreadLock(t) ==
    /\ pc[t] = "lock"
    /\ CanLock(cvMutex, t)
    /\ cvMutex' = t
    /\ pc' = [pc EXCEPT ![t] = "pred"]
    /\ UNCHANGED <<engineVars, running, stepSignal, saMutex, gaMutex,
                   mainPc, restarts, delivered, tickCredit, call>>

\* a wait that returns whatever stepSignal is
WaitPredicateAlways == TRUE

\* the predicate of cv.wait: stepSignal || !running
WaitPredicate == stepSignal \/ ~running

\* cv.wait evaluates the predicate with the lock held
ThreadPred(t) ==
    /\ pc[t] = "pred"
    /\ pc' = [pc EXCEPT ![t] = IF WaitPredicate THEN "chk" ELSE "park"]
    /\ UNCHANGED <<engineVars, syncVars, mainPc, restarts, delivered, tickCredit, call>>

\* cv.wait releases the lock and blocks, in one step
ThreadPark(t) ==
    /\ pc[t] = "park"
    /\ cvMutex' = "free"
    /\ pc' = [pc EXCEPT ![t] = "blocked"]
    /\ UNCHANGED <<engineVars, running, stepSignal, saMutex, gaMutex,
                   mainPc, restarts, delivered, tickCredit, call>>

\* a wakeup without a notification, which a condition variable may produce
SpuriousWake(t) ==
    /\ pc[t] = "blocked"
    /\ pc' = [pc EXCEPT ![t] = "woken"]
    /\ UNCHANGED <<engineVars, syncVars, mainPc, restarts, delivered, tickCredit, call>>

\* cv.wait takes the lock again after a wakeup and evaluates the predicate
ThreadReacquire(t) ==
    /\ pc[t] = "woken"
    /\ CanLock(cvMutex, t)
    /\ cvMutex' = t
    /\ pc' = [pc EXCEPT ![t] = "pred"]
    /\ UNCHANGED <<engineVars, running, stepSignal, saMutex, gaMutex,
                   mainPc, restarts, delivered, tickCredit, call>>

\* ThreadCheck with lk.unlock() after stepSignal = false
ThreadCheckUnlocks(t) ==
    /\ pc[t] = "chk"
    /\ cvMutex' = "free"
    /\ IF ~running
       THEN /\ pc' = [pc EXCEPT ![t] = "done"]
            /\ UNCHANGED <<stepSignal, delivered>>
       ELSE /\ stepSignal' = FALSE
            /\ delivered' = delivered \cup {t}
            /\ pc' = [pc EXCEPT ![t] = "englock"]
    /\ UNCHANGED <<engineVars, running, saMutex, gaMutex, mainPc, restarts, tickCredit, call>>

\* if (!running) break; stepSignal = false;
ThreadCheck(t) ==
    /\ pc[t] = "chk"
    /\ IF ~running
       THEN /\ cvMutex' = "free"
            /\ pc' = [pc EXCEPT ![t] = "done"]
            /\ UNCHANGED <<stepSignal, delivered, tickCredit>>
       ELSE /\ stepSignal' = FALSE
            /\ delivered' = delivered \cup {t}
            /\ pc' = [pc EXCEPT ![t] = "englock"]
            /\ UNCHANGED <<cvMutex, tickCredit>>
    /\ UNCHANGED <<engineVars, running, saMutex, gaMutex, mainPc, restarts, call>>

\* std::lock_guard<std::mutex> lk(saMutex) / lk(gaMutex)
ThreadEngineLock(t) ==
    /\ pc[t] = "englock"
    /\ CanLock(EngineMutexOf(t), t)
    /\ IF t = "sa" THEN saMutex' = t /\ UNCHANGED gaMutex
                   ELSE gaMutex' = t /\ UNCHANGED saMutex
    /\ pc' = [pc EXCEPT ![t] = "step"]
    /\ UNCHANGED <<engineVars, running, stepSignal, cvMutex,
                   mainPc, restarts, delivered, tickCredit, call>>

\* if (!saFinished) StepSA(); up to runAnnealing's loop
SAThreadStep ==
    /\ pc["sa"] = "step"
    /\ IF saFinished
       THEN /\ pc' = [pc EXCEPT !["sa"] = "rel"]
            /\ UNCHANGED <<saVars, logger>>
       ELSE /\ StepSAEnter
            /\ pc' = [pc EXCEPT !["sa"] = IF saPos' = "loop" THEN "instep" ELSE "rel"]
    /\ tickCredit' = [tickCredit EXCEPT !["sa"] = Spent(@)]
    /\ UNCHANGED <<problem, gaVars, syncVars, mainPc, restarts, delivered, call>>

SAThreadEvaluate ==
    /\ pc["sa"] = "instep"
    /\ SAEvaluate
    /\ UNCHANGED <<problem, gaVars, harnessVars>>

SAThreadFinishRound ==
    /\ pc["sa"] = "instep"
    /\ SAFinishRound
    /\ pc' = [pc EXCEPT !["sa"] = "rel"]
    /\ UNCHANGED <<problem, gaVars, syncVars, mainPc, restarts, delivered, tickCredit, call>>

\* if (!gaFinished) StepGA();
GAThreadStep ==
    /\ pc["ga"] = "step"
    /\ IF gaFinished THEN UNCHANGED <<gaVars, logger>> ELSE StepGA
    /\ pc' = [pc EXCEPT !["ga"] = "rel"]
    /\ tickCredit' = [tickCredit EXCEPT !["ga"] = Spent(@)]
    /\ UNCHANGED <<problem, saVars, syncVars, mainPc, restarts, delivered, call>>

\* the closing braces: the lock_guard and then the unique_lock are released
ThreadRelease(t) ==
    /\ pc[t] = "rel"
    /\ IF t = "sa" THEN saMutex' = "free" /\ UNCHANGED gaMutex
                   ELSE gaMutex' = "free" /\ UNCHANGED saMutex
    /\ cvMutex' = "free"
    /\ pc' = [pc EXCEPT ![t] = "top"]
    /\ UNCHANGED <<engineVars, running, stepSignal, mainPc, restarts, delivered, tickCredit, call>>

\* cv.notify_all(): every thread blocked in cv.wait is woken
NotifyAll == [t \in Threads |-> IF pc[t] = "blocked" THEN "woken" ELSE pc[t]]

----------------------------------------------------------------------------
(* main.cpp: the main thread.  mainPc = <<context, place>>: context "run"  *)
(* is Run's loop, "restart" the KEY_R branch of Update, "exit" the         *)
(* destructor after Run has returned.                                      *)

\* Run, lines 412-415: stepSignal = true under cvMutex
Tick ==
    /\ mainPc = <<"run", "tick">>
    /\ CanLock(cvMutex, "main")
    /\ stepSignal' = TRUE
    /\ delivered' = {}
    /\ tickCredit' = [t \in Threads |-> Earned(tickCredit[t])]
    /\ mainPc' = <<"run", "notify">>
    /\ UNCHANGED <<engineVars, running, cvMutex, saMutex, gaMutex, pc, restarts, call>>

\* Run, line 416: cv.notify_all()
TickNotify ==
    /\ mainPc = <<"run", "notify">>
    /\ pc' = NotifyAll
    /\ mainPc' = <<"run", "update">>
    /\ UNCHANGED <<engineVars, syncVars, restarts, delivered, tickCredit, call>>

\* Update, lines 341-349: KEY_R pressed or not
Update ==
    /\ mainPc = <<"run", "update">>
    /\ \/ /\ restarts < MaxRestarts
          /\ mainPc' = <<"restart", "stop">>
       \/ mainPc' = <<"run", "draw_sa">>
    /\ UNCHANGED <<engineVars, syncVars, pc, restarts, delivered, tickCredit, call>>

\* WindowShouldClose(): Run returns and the destructor calls StopThreads
Close ==
    /\ mainPc = <<"run", "tick">>
    /\ mainPc' = <<"exit", "stop">>
    /\ UNCHANGED <<engineVars, syncVars, pc, restarts, delivered, tickCredit, call>>

\* StopThreads, line 174: running = false
StopFlag ==
    /\ mainPc[2] = "stop"
    /\ running' = FALSE
    /\ mainPc' = <<mainPc[1], "notify">>
    /\ UNCHANGED <<engineVars, stepSignal, cvMutex, saMutex, gaMutex,
                   pc, restarts, delivered, tickCredit, call>>

\* StopThreads, line 175: cv.notify_all()
StopNotify ==
    /\ mainPc[1] # "run"
    /\ mainPc[2] = "notify"
    /\ pc' = NotifyAll
    /\ mainPc' = <<mainPc[1], "join_sa">>
    /\ UNCHANGED <<engineVars, syncVars, restarts, delivered, tickCredit, call>>

\* StopThreads, line 176: saThread.join()
JoinSA ==
    /\ mainPc[2] = "join_sa"
    /\ pc["sa"] = "done"
    /\ mainPc' = <<mainPc[1], "join_ga">>
    /\ UNCHANGED <<engineVars, syncVars, pc, restarts, delivered, tickCredit, call>>

\* StopThreads, line 177: gaThread.join()
JoinGA ==
    /\ mainPc[2] = "join_ga"
    /\ pc["ga"] = "done"
    /\ mainPc' = IF mainPc[1] = "restart" THEN <<"restart", "init">>
                 ELSE <<"exit", "closed">>
    /\ UNCHANGED <<engineVars, syncVars, pc, restarts, delivered, tickCredit, call>>

\* InitializeAlgorithms (lines 94-134) as Update calls it, both engine
\* mutexes taken and released
InitializeAlgorithms ==
    /\ mainPc = <<"restart", "init">>
    /\ CanLock(gaMutex, "main")
    /\ CanLock(saMutex, "main")
    /\ problem' = [problem EXCEPT !.distanceMatrix = buildDistanceMatrix(problem.cities)]
    /\ population' \in InitializedPopulations(numCities, problem'.distanceMatrix,
                                              ShuffleDraws(numCities))
    /\ gaBestPath' = population'[1]
    /\ generation' = 0
    /\ stallCounter' = 0
    /\ gaFinished' = FALSE
    /\ \E o \in Perms(numCities) :
          saState' = InitializedSA(saState, o, problem'.distanceMatrix)
    /\ saFinished' = FALSE
    /\ restarts' = restarts + 1
    /\ mainPc' = <<"restart", "rotate">>
    /\ UNCHANGED <<saPos, saI, logger, syncVars, pc, delivered, tickCredit, call>>

\* Update, lines 346-347: logger = Logger("tsp_comparison<n>.csv")
RotateLogger ==
    /\ mainPc = <<"restart", "rotate">>
    /\ logger' = NewLogger
    /\ mainPc' = <<"restart", "start">>
    /\ UNCHANGED <<problem, saVars, gaVars, syncVars, pc, restarts, delivered, tickCredit, call>>

\* StartThreads (lines 136-170), both threads joined before: its StopThreads
\* finds nothing to wake or join, then running = true and the threads start
StartThreads ==
    /\ mainPc = <<"restart", "start">>
    /\ running' = TRUE
    /\ pc' = [t \in Threads |-> "top"]
    /\ mainPc' = <<"run", "draw_sa">>
    /\ UNCHANGED <<engineVars, stepSignal, cvMutex, saMutex, gaMutex,
                   restarts, delivered, tickCredit, call>>

\* Draw, line 376: std::lock_guard<std::mutex> lk(saMutex)
DrawLockSA ==
    /\ mainPc = <<"run", "draw_sa">>
    /\ CanLock(saMutex, "main")
    /\ saMutex' = "main"
    /\ mainPc' = <<"run", "draw_sa_cs">>
    /\ UNCHANGED <<engineVars, running, stepSignal, cvMutex, gaMutex,
                   pc, restarts, delivered, tickCredit, call>>

\* Draw, lines 377-379: the two SA tours copied, the lock released
DrawCopySA ==
    /\ mainPc = <<"run", "draw_sa_cs">>
    /\ saMutex' = "free"
    /\ mainPc' = <<"run", "draw_ga">>
    /\ UNCHANGED <<engineVars, running, stepSignal, cvMutex, gaMutex,
                   pc, restarts, delivered, tickCredit, call>>

\* Draw, line 392: std::lock_guard<std::mutex> lg(gaMutex)
DrawLockGA ==
    /\ mainPc = <<"run", "draw_ga">>
    /\ CanLock(gaMutex, "main")
    /\ gaMutex' = "main"
    /\ mainPc' = <<"run", "draw_ga_cs">>
    /\ UNCHANGED <<engineVars, running, stepSignal, cvMutex, saMutex,
                   pc, restarts, delivered, tickCredit, call>>

\* Draw, lines 393-395: the two GA tours copied, the lock released
DrawCopyGA ==
    /\ mainPc = <<"run", "draw_ga_cs">>
    /\ gaMutex' = "free"
    /\ mainPc' = <<"run", "drawui">>
    /\ UNCHANGED <<engineVars, running, stepSignal, cvMutex, saMutex,
                   pc, restarts, delivered, tickCredit, call>>

\* DrawUI (lines 260-337): saState, saFinished, generation, gaBestPath,
\* population[0], stallCounter and gaFinished read, no lock taken
DrawUI ==
    /\ mainPc = <<"run", "drawui">>
    /\ mainPc' = <<"run", "tick">>
    /\ UNCHANGED <<engineVars, syncVars, pc, restarts, delivered, tickCredit, call>>

MainNext ==
    \/ Tick \/ TickNotify \/ Update \/ Close
    \/ StopFlag \/ StopNotify \/ JoinSA \/ JoinGA
    \/ InitializeAlgorithms \/ RotateLogger \/ StartThreads
    \/ DrawLockSA \/ DrawCopySA \/ DrawLockGA \/ DrawCopyGA \/ DrawUI

\* what a thread does by itself, spurious wakeups apart
ThreadNext(t) ==
    \/ ThreadTop(t) \/ ThreadLock(t) \/ ThreadPred(t) \/ ThreadPark(t)
    \/ ThreadReacquire(t) \/ ThreadCheck(t) \/ ThreadEngineLock(t)
    \/ ThreadRelease(t)
    \/ (t = "sa" /\ (SAThreadStep \/ SAThreadEvaluate \/ SAThreadFinishRound))
    \/ (t = "ga" /\ GAThreadStep)

----------------------------------------------------------------------------
(* The program: both engines on Pair2, the threads and the main thread.    *)

Init ==
    /\ InitEngines(Pair2, Perms(Len(Pair2)), ShuffleDraws(Len(Pair2)))
    /\ InitHarness

Next ==
    \/ \E t \in Threads : ThreadTop(t)
    \/ \E t \in Threads : ThreadLock(t)
    \/ \E t \in Threads : ThreadPred(t)
    \/ \E t \in Threads : ThreadPark(t)
    \/ \E t \in Threads : SpuriousWake(t)
    \/ \E t \in Threads : ThreadReacquire(t)
    \/ \E t \in Threads : ThreadCheck(t)
    \/ \E t \in Threads : ThreadEngineLock(t)
    \/ \E t \in Threads : ThreadRelease(t)
    \/ SAThreadStep
    \/ SAThreadEvaluate
    \/ SAThreadFinishRound
    \/ GAThreadStep
    \/ Tick
    \/ TickNotify
    \/ Update
    \/ Close
    \/ StopFlag
    \/ StopNotify
    \/ JoinSA
    \/ JoinGA
    \/ InitializeAlgorithms
    \/ RotateLogger
    \/ StartThreads
    \/ DrawLockSA
    \/ DrawCopySA
    \/ DrawLockGA
    \/ DrawCopyGA
    \/ DrawUI

Spec == Init /\ [][Next]_vars

\* Every thread that can run does run: the scheduler starves neither an
\* engine thread nor the main thread.  A spurious wakeup is never owed.
FairSpec ==
    /\ Init
    /\ [][Next]_vars
    /\ \A t \in Threads : WF_vars(ThreadNext(t))
    /\ WF_vars(MainNext)

\* The scheduler and the mutexes are fair as well: a thread that can run
\* again and again, if only whenever a mutex it waits for is free, does run.
StrongFairSpec ==
    /\ Init
    /\ [][Next]_vars
    /\ \A t \in Threads : SF_vars(ThreadNext(t))
    /\ SF_vars(MainNext)

----------------------------------------------------------------------------
(* One engine stepped alone on Rect4.  Thread t holds its locks at the     *)
(* call of its step, having consumed a tick; the other thread stays in     *)
(* cv.wait and its engine stays as one outcome of InitializeAlgorithms     *)
(* (the shuffle that leaves 0, 1, .., n-1).  NextCall stands for thread    *)
(* t's way from the end of one loop iteration to the step of the next, the *)
(* main thread having ticked again.                                        *)

InitStepping(t) ==
    /\ running = TRUE
    /\ stepSignal = FALSE
    /\ cvMutex = t
    /\ saMutex = (IF t = "sa" THEN t ELSE "free")
    /\ gaMutex = (IF t = "ga" THEN t ELSE "free")
    /\ pc = [u \in Threads |-> IF u = t THEN "step" ELSE "blocked"]
    /\ mainPc = <<"run", "update">>
    /\ restarts = 0
    /\ delivered = {t}
    /\ tickCredit = [u \in Threads |-> 1]
    /\ logger = NewLogger

IdentityOrder(n) == [p \in 1..n |-> p - 1]

InitSA ==
    /\ InitEngines(Rect4, Perms(Len(Rect4)), IdentityDraws(Len(Rect4)))
    /\ InitStepping("sa")
    /\ call = NoCall

InitGA ==
    /\ InitEngines(Rect4, {IdentityOrder(Len(Rect4))}, ShuffleDraws(Len(Rect4)))
    /\ InitStepping("ga")
    /\ call = NoCall

NextCall(t) ==
    /\ pc[t] = "rel"
    /\ pc' = [pc EXCEPT ![t] = "step"]
    /\ tickCredit' = [u \in Threads |-> Earned(tickCredit[u])]
    /\ UNCHANGED <<engineVars, syncVars, mainPc, restarts, delivered, call>>

NextSA ==
    \/ SAThreadStep
    \/ SAThreadEvaluate
    \/ SAThreadFinishRound
    \/ NextCall("sa")

SpecSA == InitSA /\ [][NextSA]_vars

NextGA ==
    \/ GAThreadStep
    \/ NextCall("ga")

SpecGA == InitGA /\ [][NextGA]_vars

\* the SA engine stepped alone with params.alpha = 0, the value
\* AnnealingParams gives it (annealing.h:9), InitializeAlgorithms' other
\* assignments as they are
InitSAZeroAlpha ==
    /\ problem = InitProblem(Rect4)
    /\ \E o \in Perms(Len(Rect4)) :
          saState = [InitializedSA(DefaultAnnealingState, o, problem.distanceMatrix)
                        EXCEPT !.params.alpha = DefaultAnnealingState.params.alpha]
    /\ saFinished = FALSE
    /\ saPos = "idle"
    /\ saI = 0
    /\ population \in InitializedPopulations(Len(Rect4), problem.distanceMatrix,
                                             IdentityDraws(Len(Rect4)))
    /\ gaBestPath = population[1]
    /\ generation = 0
    /\ stallCounter = 0
    /\ gaFinished = FALSE
    /\ InitStepping("sa")
    /\ call = NoCall

SpecSAZeroAlpha == InitSAZeroAlpha /\ [][NextSA]_vars

\* either engine stepped alone
NextEngines ==
    \/ SAThreadStep
    \/ SAThreadEvaluate
    \/ SAThreadFinishRound
    \/ GAThreadStep
    \/ \E t \in Threads : NextCall(t)

SpecEngines == (InitSA \/ InitGA) /\ [][NextEngines]_vars

\* thread t, at or inside its step or at the end of a loop iteration, moves
\* on: its position or runAnnealing's loop index changes
ThreadAdvances(t) ==
    /\ pc[t] \in {"step", "instep", "rel"}
    /\ pc' \in [Threads -> {"step", "instep", "rel", "blocked"}]
    /\ saI' \in 0..saState.params.neighborsPerTemp
    /\ (pc'[t] # pc[t] \/ saI' # saI)

\* the step is called again and again: the thread that steps is never
\* starved, and the main thread keeps ticking
FairSpecEngines == SpecEngines /\ WF_<<pc, saI>>(\E t \in Threads : ThreadAdvances(t))

----------------------------------------------------------------------------
(* One function called by itself on arguments drawn from bounded sets, the *)
(* program standing still at one outcome of InitializeAlgorithms.          *)

\* a Path of n cities not evaluated yet (genetic.h:25)
FreshPath(order) == [order |-> order, dist |-> Infinity]

\* orderCrossover(p1, p2, child, rng) on two parents of n cities, rng
\* drawing a and b
CrossoverCalls(n) ==
    { [op |-> "orderCrossover", p1 |-> FreshPath(o1), p2 |-> FreshPath(o2),
       a |-> a, b |-> b, done |-> FALSE, child |-> <<>>] :
        o1 \in Perms(n), o2 \in Perms(n), a \in Positions(n), b \in Positions(n) }

ApplyOrderCrossover ==
    /\ call.op = "orderCrossover"
    /\ ~call.done
    /\ call' = [call EXCEPT !.done = TRUE,
                            !.child = orderCrossover(call.p1, call.p2, call.a, call.b)]
    /\ UNCHANGED <<engineVars, harnessVarsButCall>>

\* routeLength(order, distM) on a tour of the cities of an instance, distM
\* built by buildDistanceMatrix
RouteCalls(cities) ==
    { [op |-> "routeLength", cities |-> cities, order |-> o,
       done |-> FALSE, len |-> 0] : o \in Perms(Len(cities)) }

ApplyRouteLength ==
    /\ call.op = "routeLength"
    /\ ~call.done
    /\ call' = [call EXCEPT !.done = TRUE,
                            !.len = routeLength(call.order, buildDistanceMatrix(call.cities))]
    /\ UNCHANGED <<engineVars, harnessVarsButCall>>

\* twoOptSwap(path, rng) on a tour of 0 to MaxCities cities, rng drawing i
\* and j when the tour has 2 cities or more; given is path as it is passed
TwoOptCalls(n) ==
    { [op |-> "twoOptSwap", given |-> FreshPath(o), path |-> FreshPath(o),
       i |-> i, j |-> j, done |-> FALSE, swap |-> FreshPath(<<>>)] :
        o \in Perms(n),
        i \in (IF n < 2 THEN {0} ELSE Positions(n)),
        j \in (IF n < 2 THEN {0} ELSE Positions(n)) }

\* the call writes nothing to path (annealing.h:27-35)
ApplyTwoOptSwap ==
    /\ call.op = "twoOptSwap"
    /\ ~call.done
    /\ call' = [call EXCEPT !.done = TRUE,
                            !.swap = twoOptSwap(call.path, call.i, call.j)]
    /\ UNCHANGED <<engineVars, harnessVarsButCall>>

InitFunctions ==
    /\ InitEngines(Rect4, {IdentityOrder(Len(Rect4))}, IdentityDraws(Len(Rect4)))
    /\ InitStepping("sa")
    /\ \/ \E n \in 1..MaxCities : call \in CrossoverCalls(n)
       \/ \E cities \in {Rect4, Line4, Line3, Pair2, One1} : call \in RouteCalls(cities)
       \/ \E n \in 0..MaxCities : call \in TwoOptCalls(n)

NextFunctions ==
    \/ ApplyOrderCrossover
    \/ ApplyRouteLength
    \/ ApplyTwoOptSwap

SpecFunctions == InitFunctions /\ [][NextFunctions]_vars

----------------------------------------------------------------------------
(* The claims. *)

\* thread t is inside the braces of lines 149-152 / 164-167, its step not
\* yet over
InStep(t) == pc[t] \in {"step", "instep"}

\* the main thread reads the SA engine's / the GA engine's mutable state
ConsumerReadsSA == mainPc \in {<<"run", "draw_sa_cs">>, <<"run", "drawui">>}
ConsumerReadsGA == mainPc \in {<<"run", "draw_ga_cs">>, <<"run", "drawui">>}

\* both tasks back in cv.wait, the tick consumed, no notify_all still to come
Quiescent ==
    /\ running
    /\ ~stepSignal
    /\ mainPc[2] # "notify"
    /\ \A t \in Threads : pc[t] = "blocked"

\* C1: while the run is active and both engines are non-terminal, the latest
\* tick is taken by both tasks: once the tick is consumed and both tasks are
\* back in cv.wait, each of them has consumed it.
C1_TickFanOut ==
    (Quiescent /\ ~saFinished /\ ~gaFinished /\ delivered # {}) => delivered = Threads

\* C2: once StopThreads has set running to false and broadcast, both tasks
\* eventually leave their loops.
C2_ShutdownCompletes ==
    (mainPc[2] = "join_sa") ~> (\A t \in Threads : pc[t] = "done")

\* C3: right after the InitializeAlgorithms of a restart the SA engine has
\* temperature = initialTemp, stallCounter = 0, iteration counter = 0,
\* bestDist = the length of its current tour and saFinished = false, and is
\* not terminal; the GA engine has generation = 0, stallCounter = 0 and
\* gaFinished = false.
C3_RestartFresh ==
    mainPc = <<"restart", "start">> =>
        /\ saState.params.actualTemp = saState.params.initialTemp
        /\ saState.stallCounter = 0
        /\ saState.currentIterations = 0
        /\ saState.bestDist = routePathLength(saState.currentPath, problem)
        /\ ~saFinished
        /\ ~AnnealingTerminal(saState)
        /\ generation = 0
        /\ stallCounter = 0
        /\ ~gaFinished

\* C4: whenever the consumer (Draw, DrawUI) reads an engine's mutable state
\* it holds that engine's mutex, and that engine's task is not inside a step.
C4_SnapshotDiscipline ==
    /\ ConsumerReadsSA => (saMutex = "main" /\ ~InStep("sa"))
    /\ ConsumerReadsGA => (gaMutex = "main" /\ ~InStep("ga"))

\* C5: a task inside its step holds its engine's mutex, the consumer inside
\* the tour copy of Draw holds the same mutex, and the two never coincide.
C5_StepAtomicity ==
    /\ \A t \in Threads : InStep(t) => EngineMutexOf(t) = t
    /\ mainPc = <<"run", "draw_sa_cs">> => (saMutex = "main" /\ ~InStep("sa"))
    /\ mainPc = <<"run", "draw_ga_cs">> => (gaMutex = "main" /\ ~InStep("ga"))

\* C5's case: the SA task is inside runAnnealing's loop while Draw waits
\* for saMutex.
C5_Witness ==
    /\ pc["sa"] = "instep"
    /\ saI > 0
    /\ mainPc = <<"run", "draw_sa">>

\* C6: the cached length of the SA engine's current tour and of its best
\* tour is the route length of that tour's order, at every point of a run.
C6_CachedLength ==
    /\ saState.currentPath.dist = routePathLength(saState.currentPath, problem)
    /\ saState.bestPath.dist = routePathLength(saState.bestPath, problem)

\* C7: every tour an engine holds (SA current and best, every member of the
\* GA population, gaBestPath) is a permutation of [0, n).
C7_Permutations ==
    /\ IsPermutation(saState.currentPath.order, numCities)
    /\ IsPermutation(saState.bestPath.order, numCities)
    /\ \A k \in 1..Len(population) : IsPermutation(population[k].order, numCities)
    /\ IsPermutation(gaBestPath.order, numCities)

\* C7's case: SA candidates have been accepted, the current tour having
\* left the best one.
C7_Witness ==
    /\ saState.currentIterations >= NeighborsPerTemp
    /\ saState.currentPath.order # saState.bestPath.order
    /\ saState.bestPath.order # IdentityOrder(numCities)

\* a candidate evaluation of runAnnealing happens in this step
SAEvaluated == saState'.currentIterations # saState.currentIterations

\* C8: bestDist never increases; after a candidate evaluation it is at most
\* the current tour's length and is the length of bestPath.order; the
\* evaluation sets stallCounter to 0 when it lowers bestDist and adds 1 to
\* it otherwise, and nothing else changes either.
C8_BestTracking ==
    [][ /\ saState'.bestDist <= saState.bestDist
        /\ IF SAEvaluated
           THEN /\ saState'.bestDist <= routePathLength(saState'.currentPath, problem)
                /\ saState'.bestDist = routePathLength(saState'.bestPath, problem)
                /\ IF saState'.bestDist < saState.bestDist
                   THEN saState'.stallCounter = 0
                   ELSE saState'.stallCounter = saState.stallCounter + 1
           ELSE /\ saState'.bestDist = saState.bestDist
                /\ saState'.stallCounter = saState.stallCounter ]_vars

\* C8's case: an evaluation lowered bestDist and the next one did not, the
\* current tour being longer than the best.
C8_Witness ==
    /\ saState.currentIterations >= 2
    /\ saState.stallCounter = 1
    /\ saState.bestDist < routePathLength(saState.currentPath, problem)

\* the least dist of a population
MinDist(pop) ==
    CHOOSE d \in { pop[k].dist : k \in 1..Len(pop) } :
        \A k \in 1..Len(pop) : d <= pop[k].dist

\* the GA thread passes the guarded call of StepGA in this step
GAStepped == pc["ga"] = "step" /\ pc'["ga"] = "rel" /\ ~gaFinished

\* C9: gaBestPath.dist never increases.  A StepGA that is not refused adds 1
\* to generation; when the new population's least length is below
\* gaBestPath.dist it makes gaBestPath a member of that length and
\* stallCounter 0, otherwise it leaves gaBestPath and adds 1 to stallCounter.
C9_GABestTracking ==
    [][ /\ gaBestPath'.dist <= gaBestPath.dist
        /\ (GAStepped /\ ~StepGARefuses) =>
              /\ generation' = generation + 1
              /\ IF MinDist(population') < gaBestPath.dist
                 THEN /\ gaBestPath'.dist = MinDist(population')
                      /\ \E k \in 1..Len(population') : gaBestPath' = population'[k]
                      /\ stallCounter' = 0
                 ELSE /\ gaBestPath' = gaBestPath
                      /\ stallCounter' = stallCounter + 1
        /\ ~(GAStepped /\ ~StepGARefuses) =>
              UNCHANGED <<population, gaBestPath, generation, stallCounter>> ]_vars

\* C9's case: one generation improved the best tour and the next did not.
C9_Witness ==
    /\ generation = 2
    /\ stallCounter = 1
    /\ gaBestPath.dist < population[Len(population)].dist

\* C10: a call of StepSA does no work exactly when actualTemp < finalTemp or
\* stallCounter >= stallLimit at entry; otherwise (so also when actualTemp
\* equals finalTemp) it enters runAnnealing's loop.
C10_SARefusal ==
    [][ (pc["sa"] = "step" /\ ~saFinished /\ pc'["sa"] # "step") =>
            ((pc'["sa"] = "rel") <=> AnnealingTerminal(saState)) ]_vars

\* the SA engine is terminal: saFinished is set, or the next call of StepSA
\* finds one of the two terminal tests true (main.cpp:182, annealing.h:43-44)
SATerminal ==
    \/ saFinished
    \/ /\ saPos = "idle"
       /\ \/ RatLeq(saState.params.actualTemp, saState.params.finalTemp)
          \/ saState.stallCounter >= saState.params.stallLimit

\* the GA engine is terminal: gaFinished is set, or the next call of StepGA
\* finds the terminal test true (main.cpp:199)
GATerminal ==
    \/ gaFinished
    \/ generation >= gaParams.generations
    \/ stallCounter >= gaParams.stallLimit

\* C11: while no restart happens, a step of the program taken with an engine
\* terminal leaves that engine's tours, best tour and length, temperature,
\* counters and stall counter unchanged.  A StepSA that leaves runAnnealing's
\* loop has run the whole batch and cools; a StepGA changes nothing or makes
\* a whole generation, every member evaluated.
C11_TerminalFrame ==
    [][ /\ (SATerminal /\ restarts' = restarts) => saState' = saState
        /\ (GATerminal /\ restarts' = restarts) =>
              UNCHANGED <<population, gaBestPath, generation, stallCounter>>
        /\ (pc["sa"] = "instep" /\ pc'["sa"] # "instep") =>
              /\ saI = saState.params.neighborsPerTemp
              /\ saState' = Cool(saState)
        /\ (pc["sa"] = "step" /\ pc'["sa"] = "rel") => saState' = saState
        /\ (pc["ga"] = "step" /\ pc'["ga"] = "rel") =>
              \/ UNCHANGED <<population, gaBestPath, generation, stallCounter>>
              \/ /\ generation' = generation + 1
                 /\ \A k \in 1..Len(population') :
                       population'[k].dist =
                           routeLength(population'[k].order, problem.distanceMatrix) ]_vars

\* C11's case: both engines terminal, their flags set by earlier steps, and
\* a task has taken a later tick and is at its guarded call.
C11_Witness ==
    /\ saFinished
    /\ gaFinished
    /\ \E t \in Threads : pc[t] = "step"

\* the cooling rounds runAnnealing has completed: each runs neighborsPerTemp
\* evaluations, each of which adds 1 to currentIterations
SARoundsCompleted == saState.currentIterations \div saState.params.neighborsPerTemp

\* C12: between steps the SA stream holds exactly one record per completed
\* cooling round (the round that leaves the engine terminal included) and
\* the GA stream exactly one per completed generation, the k-th record
\* carrying the counter of the k-th round / generation.
C12_ProgressRecords ==
    /\ saPos = "idle" =>
          /\ Len(logger.sa) = SARoundsCompleted
          /\ \A k \in 1..Len(logger.sa) :
                logger.sa[k][1] = k * saState.params.neighborsPerTemp
    /\ Len(logger.ga) = generation
    /\ \A k \in 1..Len(logger.ga) : logger.ga[k][1] = k

\* C13: for each engine, the calls of its step never outnumber the ticks the
\* main thread has issued: no task steps twice on one tick.
C13_OneStepPerTick ==
    \A t \in Threads : tickCredit[t] >= 0

\* C13's case: the GA task has stepped on each of two ticks and waits, no
\* tick left for it.
C13_Witness ==
    /\ generation = 2
    /\ pc["ga"] = "blocked"
    /\ tickCredit["ga"] = 0
    /\ mainPc = <<"run", "tick">>

\* the population is sorted ascending by dist
SortedByDist(pop) == \A k \in 1..(Len(pop) - 1) : pop[k].dist <= pop[k + 1].dist

\* C14: a StepGA that is not refused, taken from a population sorted
\* ascending by length, leaves each of the first elitism members of the old
\* population in the new one, order and length the same, each in a slot of
\* its own.
C14_Elitism ==
    [][ (GAStepped /\ ~StepGARefuses /\ SortedByDist(population)) =>
          \E f \in [1..gaParams.elitism -> 1..Len(population')] :
              /\ \A k, l \in 1..gaParams.elitism : k # l => f[k] # f[l]
              /\ \A k \in 1..gaParams.elitism :
                    population'[f[k]] = population[k] ]_vars

\* C14's case: after a generation the population holds the elite and a
\* child that is another, longer tour.
C14_Witness ==
    /\ generation >= 1
    /\ gaParams.elitism >= 1
    /\ population[1].order # population[Len(population)].order
    /\ population[1].dist < population[Len(population)].dist

\* C15: orderCrossover on two permutations of [0, n) with cut points
\* a <= b gives a child that holds each gene of [0, n) once, equals parent 1
\* on the positions a..b, and holds on the positions after b (wrapping) the
\* genes of parent 2 that are not in that segment, in the order parent 2
\* has them from position b+1 on (wrapping).
C15_OrderCrossover ==
    (call.op = "orderCrossover" /\ call.done) =>
        LET n == Len(call.p1.order)
            a == IF call.a > call.b THEN call.b ELSE call.a
            b == IF call.a > call.b THEN call.a ELSE call.b
            segment == { call.p1.order[p] : p \in (a + 1)..(b + 1) }
            rest == SelectSeq([i \in 1..n |-> call.p2.order[((b + i) % n) + 1]],
                              LAMBDA g : g \notin segment)
        IN  /\ IsPermutation(call.child, n)
            /\ \A p \in (a + 1)..(b + 1) : call.child[p] = call.p1.order[p]
            /\ Len(rest) = n - (b - a + 1)
            /\ \A i \in 1..Len(rest) : call.child[((b + i) % n) + 1] = rest[i]

\* C15's case: a crossover of two different parents of MaxCities cities
\* whose segment is inside the tour and whose fill wraps around.
C15_Witness ==
    /\ call.op = "orderCrossover"
    /\ call.done
    /\ Len(call.child) = MaxCities
    /\ call.p1.order # call.p2.order
    /\ call.a = 1
    /\ call.b = 2
    /\ call.child # call.p1.order
    /\ call.child # call.p2.order

\* C16: with alpha = 0 and finalTemp < initialTemp no step changes the SA
\* temperature, the temperature never reaches finalTemp, and saFinished is
\* set only with stallCounter >= stallLimit.
C16_ZeroAlpha ==
    [][ /\ saState'.params.actualTemp = saState.params.actualTemp
        /\ ~RatLeq(saState'.params.actualTemp, saState'.params.finalTemp)
        /\ saFinished' => saState'.stallCounter >= saState'.params.stallLimit ]_vars

\* C16's case: the engine has cooled more often than the schedule with
\* alpha > 0 allows and has stopped on the stall limit, the temperature
\* still the initial one.
C16_Witness ==
    /\ saState.params.alpha = <<0, 1>>
    /\ saFinished
    /\ Len(logger.sa) >= 3
    /\ saState.stallCounter >= saState.params.stallLimit
    /\ saState.params.actualTemp = saState.params.initialTemp

\* C17: on the (symmetric, integer) matrix buildDistanceMatrix gives,
\* routeLength of a tour is routeLength of the tour rotated by any k and
\* routeLength of the tour reversed; going once around Line4 or Rect4 from
\* city 0 in order counts the edge back to the first city.
C17_RouteLengthSymmetry ==
    (call.op = "routeLength" /\ call.done) =>
        LET n == Len(call.order)
            distM == buildDistanceMatrix(call.cities)
            rotated(k) == [p \in 1..n |-> call.order[((p - 1 + k) % n) + 1]]
            reversed == [p \in 1..n |-> call.order[n + 1 - p]]
        IN  /\ \A k \in 0..n : call.len = routeLength(rotated(k), distM)
            /\ call.len = routeLength(reversed, distM)
            /\ (call.cities = Line4 /\ call.order = <<0, 1, 2, 3>>) => call.len = 14
            /\ (call.cities = Rect4 /\ call.order = <<0, 1, 2, 3>>) => call.len = 14
            /\ (call.cities = Rect4 /\ call.order = <<0, 2, 1, 3>>) => call.len = 18

\* C17's case: the length of a tour of Line4 that starts elsewhere than at
\* city 0 and whose rotations and reversal are other orders.
C17_Witness ==
    /\ call.op = "routeLength"
    /\ call.done
    /\ call.cities = Line4
    /\ call.order = <<2, 0, 3, 1>>
    /\ call.len = 18

\* C18: the GA is never set up on a problem of fewer than 3 cities, so no
\* generation runs on one.
C18_GASizePrecondition ==
    numCities < 3 => generation = 0

\* C19: generation <= maxGenerations and the GA's stallCounter <= stallLimit
\* always; every cooling round lowers the SA temperature; and the engine
\* whose step is called again and again becomes terminal, its flag set.
C19_Termination ==
    /\ [](generation <= gaParams.generations /\ stallCounter <= gaParams.stallLimit)
    /\ [][ (pc["sa"] = "instep" /\ pc'["sa"] = "rel") =>
              RatLess(saState'.params.actualTemp, saState.params.actualTemp) ]_vars
    /\ <>( \/ pc["ga"] = "blocked" /\ saFinished
           \/ pc["sa"] = "blocked" /\ gaFinished )

\* C19's case: the GA has stopped on the generation count, short of the
\* stall limit.
C19_Witness ==
    /\ gaFinished
    /\ generation = gaParams.generations
    /\ stallCounter < gaParams.stallLimit

\* C20: twoOptSwap leaves the tour it is given as it was.  On a tour of 2
\* cities or more it returns a tour of the same cities that equals the
\* given one outside the positions lo..hi (the two draws in order) and is
\* its mirror image inside them, so the given order itself when the draws
\* are equal; a tour of fewer than 2 cities is returned as given.
C20_TwoOptMove ==
    (call.op = "twoOptSwap" /\ call.done) =>
        LET n == Len(call.given.order)
            lo == IF call.i > call.j THEN call.j ELSE call.i
            hi == IF call.i > call.j THEN call.i ELSE call.j
        IN  /\ call.path = call.given
            /\ Len(call.swap.order) = n
            /\ n < 2 => call.swap = call.given
            /\ n >= 2 =>
                  /\ \A p \in 0..(n - 1) :
                        call.swap.order[p + 1] =
                            IF lo <= p /\ p <= hi THEN call.given.order[(lo + hi - p) + 1]
                            ELSE call.given.order[p + 1]
                  /\ lo = hi => call.swap.order = call.given.order

\* C20's case: a tour of 4 cities, the draws out of order, an inner segment
\* of two positions exchanged.
C20_Witness ==
    /\ call.op = "twoOptSwap"
    /\ call.done
    /\ call.given.order = <<0, 1, 2, 3>>
    /\ call.i = 2
    /\ call.j = 1
    /\ call.swap.order = <<0, 2, 1, 3>>

\* C21: after InitializeAlgorithms and after every generation the
\* population has populationSize members, each member's dist is the route
\* length of its order, the members are in ascending order of dist, and
\* gaBestPath.dist is at most the first member's dist.
C21_PopulationConsistency ==
    /\ Len(population) = gaParams.populationSize
    /\ \A k \in 1..Len(population) :
          population[k].dist = routeLength(population[k].order, problem.distanceMatrix)
    /\ SortedByDist(population)
    /\ gaBestPath.dist <= population[1].dist

\* C21's case: two generations have run, the second bred a tour longer
\* than the best one, and the sort has put it last.
C21_Witness ==
    /\ generation = 2
    /\ pc["ga"] = "rel"
    /\ gaBestPath.dist = 14
    /\ population[1].dist = 14
    /\ population[Len(population)].dist = 18

\* the other engine thread
OtherThread(t) == IF t = "sa" THEN "ga" ELSE "sa"

\* the engine of thread t is terminal
EngineTerminal(t) == IF t = "sa" THEN SATerminal ELSE GATerminal

\* C22: if Run keeps issuing ticks and every thread is scheduled fairly, an
\* engine that is not terminal eventually has its step called again, also
\* when the other engine is terminal and its task goes on clearing
\* stepSignal.
C22_NoStarvation ==
    ([]<>(mainPc = <<"run", "notify">>)) =>
        \A t \in Threads :
            (EngineTerminal(OtherThread(t)) /\ ~EngineTerminal(t)) ~> InStep(t)

\* C23: a task inside its step holds cvMutex, so the SA task is never
\* inside StepSA while the GA task is inside StepGA, and Run cannot set
\* stepSignal for a new tick while either task is inside its step.
C23_Serialisation ==
    /\ ~(InStep("sa") /\ InStep("ga"))
    /\ \A t \in Threads : InStep(t) => cvMutex = t
    /\ (\E t \in Threads : InStep(t)) => ~ENABLED Tick

\* C23's case: the SA task is inside runAnnealing's loop while the GA task,
\* notified, waits for cvMutex and Run is about to issue the next tick.
C23_Witness ==
    /\ pc["sa"] = "instep"
    /\ pc["ga"] = "woken"
    /\ mainPc = <<"run", "tick">>

====
